---- MODULE Spec2Model ----
(***************************************************************************)
(* A model of seekfast.py: text extraction dispatch, term compilation and  *)
(* line matching (search_file), file discovery (find_files) and the        *)
(* process-pool driven collection, sorting and display in main.            *)
(*                                                                         *)
(* Strings are sequences of one-character strings, so that they can be     *)
(* indexed, sliced, compared and concatenated as Python does.              *)
(***************************************************************************)
EXTENDS Integers, Sequences, FiniteSets, TLC

\* ------------------------------------------------------------------ bounds
MaxLines == 3      \* lines of extracted text in the search_file runs
MaxTerms == 2      \* search terms on the command line
MaxExts  == 2      \* extension filters on the command line
MaxJobs  == 2      \* --jobs

\* ------------------------------------------------------------- characters
NL == "\n"
BS == "\\"

Min(a, b) == IF a < b THEN a ELSE b
Max(a, b) == IF a > b THEN a ELSE b

\* Code points of the characters that occur in paths (str comparison).
Ord(c) ==
  CASE c = "." -> 46
    [] c = "a" -> 97
    [] c = "b" -> 98
    [] c = "c" -> 99
    [] c = "d" -> 100
    [] c = "f" -> 102
    [] c = "o" -> 111
    [] c = "p" -> 112
    [] c = "t" -> 116
    [] c = "x" -> 120
    [] OTHER   -> 0

\* str.lower() / re.IGNORECASE folding of one character.
Lower(c) == IF c = "A" THEN "a" ELSE c

LowerStr(s) == [i \in 1..Len(s) |-> Lower(s[i])]

\* \w for str patterns: letters (digits and "_" do not occur in the inputs).
IsWord(c) == c \in {"a", "A", "b"}

\* str.isspace()
IsSpace(c) == c \in {" ", NL}

\* Python str "<": lexicographic on code points, a proper prefix is smaller.
RECURSIVE StrLess(_, _)
StrLess(s, t) ==
  IF Len(t) = 0 THEN FALSE
  ELSE IF Len(s) = 0 THEN TRUE
  ELSE IF Ord(Head(s)) < Ord(Head(t)) THEN TRUE
  ELSE IF Ord(Head(s)) > Ord(Head(t)) THEN FALSE
  ELSE StrLess(Tail(s), Tail(t))

\* str.endswith
EndsWith(s, suf) ==
  /\ Len(suf) <= Len(s)
  /\ SubSeq(s, Len(s) - Len(suf) + 1, Len(s)) = suf

\* str.startswith
StartsWith(s, pre) ==
  /\ Len(pre) <= Len(s)
  /\ SubSeq(s, 1, Len(pre)) = pre

\* sep.join(parts)
RECURSIVE Join(_, _)
Join(parts, sep) ==
  IF Len(parts) = 0 THEN <<>>
  ELSE IF Len(parts) = 1 THEN parts[1]
  ELSE parts[1] \o sep \o Join(Tail(parts), sep)

\* str.strip(): drop leading and trailing whitespace.
RECURSIVE LStrip(_)
LStrip(s) == IF Len(s) > 0 /\ IsSpace(Head(s)) THEN LStrip(Tail(s)) ELSE s

RECURSIVE RStrip(_)
RStrip(s) ==
  IF Len(s) > 0 /\ IsSpace(s[Len(s)]) THEN RStrip(SubSeq(s, 1, Len(s) - 1)) ELSE s

Strip(s) == RStrip(LStrip(s))

\* str.splitlines(): split at line boundaries, no empty line after a final
\* line break.  cur is the line being accumulated.
RECURSIVE SplitFrom(_, _)
SplitFrom(s, cur) ==
  IF Len(s) = 0 THEN (IF Len(cur) = 0 THEN <<>> ELSE <<cur>>)
  ELSE IF Head(s) = NL THEN <<cur>> \o SplitFrom(Tail(s), <<>>)
  ELSE SplitFrom(Tail(s), Append(cur, Head(s)))

SplitLines(text) == SplitFrom(text, <<>>)

\* ------------------------------------------------------------------ regex
\* re.escape: a backslash before every special character.
SpecialChars == {"+", " ", BS, NL, "."}

RECURSIVE Escape(_)
Escape(term) ==
  IF Len(term) = 0 THEN <<>>
  ELSE (IF Head(term) \in SpecialChars THEN <<BS, Head(term)>> ELSE <<Head(term)>>)
       \o Escape(Tail(term))

\* A pattern that did not compile (re.error was raised).
ReError == [error |-> TRUE, items |-> <<>>, ignorecase |-> FALSE]

Lit(c)       == [kind |-> "lit", ch |-> c, plus |-> FALSE]
WordBoundary == [kind |-> "wb", ch |-> "", plus |-> FALSE]

\* The parser of re.compile on the pattern syntax the program can produce:
\* literals, "\b", escaped literals and the "+" repetition.  A "+" with
\* nothing to repeat (at the start, after an assertion) is an error, and so is
\* a trailing backslash.  A "+" right after a repeat is taken as the "multiple
\* repeat" error of Python before 3.11; no pattern of the inputs has one.
RECURSIVE Parse(_, _)
Parse(p, items) ==
  IF Len(p) = 0 THEN [error |-> FALSE, items |-> items]
  ELSE IF Head(p) = BS THEN
    IF Len(p) = 1 THEN [error |-> TRUE, items |-> <<>>]
    ELSE IF p[2] = "b" THEN Parse(SubSeq(p, 3, Len(p)), Append(items, WordBoundary))
    ELSE Parse(SubSeq(p, 3, Len(p)), Append(items, Lit(p[2])))
  ELSE IF Head(p) = "+" THEN
    IF Len(items) = 0 THEN [error |-> TRUE, items |-> <<>>]
    ELSE IF items[Len(items)].kind = "wb" \/ items[Len(items)].plus
      THEN [error |-> TRUE, items |-> <<>>]
    ELSE Parse(Tail(p), [items EXCEPT ![Len(items)].plus = TRUE])
  ELSE Parse(Tail(p), Append(items, Lit(Head(p))))

\* re.compile(pattern, flags): the parsed items and the IGNORECASE flag.
ReCompile(p, ignorecase) ==
  LET parsed == Parse(p, <<>>) IN
  IF parsed.error THEN ReError
  ELSE [error |-> FALSE, items |-> parsed.items, ignorecase |-> ignorecase]

CharEq(pattern, c, d) == IF pattern.ignorecase THEN Lower(c) = Lower(d) ELSE c = d

\* \b at offset pos (0-based, between line[pos] and line[pos+1]).
AtBoundary(line, pos) ==
  LET before == pos > 0 /\ IsWord(line[pos])
      after  == pos < Len(line) /\ IsWord(line[pos + 1])
  IN before # after

\* Does items[k..] match line starting at offset pos?
RECURSIVE MatchAt(_, _, _, _)
MatchAt(pattern, k, line, pos) ==
  IF k > Len(pattern.items) THEN TRUE
  ELSE LET it == pattern.items[k] IN
    IF it.kind = "wb" THEN AtBoundary(line, pos) /\ MatchAt(pattern, k + 1, line, pos)
    ELSE IF ~it.plus THEN
      /\ pos < Len(line)
      /\ CharEq(pattern, it.ch, line[pos + 1])
      /\ MatchAt(pattern, k + 1, line, pos + 1)
    ELSE \E n \in 1..(Len(line) - pos) :
      /\ \A j \in 1..n : CharEq(pattern, it.ch, line[pos + j])
      /\ MatchAt(pattern, k + 1, line, pos + n)

\* pattern.search(line): a match exists at some offset.
ReSearch(pattern, line) == \E pos \in 0..Len(line) : MatchAt(pattern, 1, line, pos)

\* ------------------------------------------------------------------ state
VARIABLES
  disk,          \* path -> text the format's extractor returns for the file
  dirlist,       \* the directory's files in traversal order
  extensions,    \* args.extensions
  search_terms,  \* args.terms
  flags,         \* args.case_sensitive, args.whole_word, args.regex
  jobs,          \* args.jobs
  pc,            \* position of main
  files,         \* find_files' list; one future per element
  fstate,        \* per future: "new", "pending", "running", "finished"
  outcome,       \* per finished future: its result or its exception
  yielded,       \* futures in the order as_completed yielded them
  all_results,   \* main's all_results
  shown,         \* the list display_results received
  target,        \* file_path of a direct search_file call
  found,         \* what that call returned
  spc            \* position of the direct call

vars == <<disk, dirlist, extensions, search_terms, flags, jobs, pc, files, fstate,
          outcome, yielded, all_results, shown, target, found, spc>>

mainVars   == <<pc, files, fstate, outcome, yielded, all_results, shown>>
searchVars == <<target, found, spc>>
inputVars  == <<disk, dirlist, extensions, search_terms, flags, jobs>>

\* A future that has not finished holds neither a result nor an exception.
NoOutcome == [status |-> "none", results |-> <<>>]

\* ------------------------------------------------------------- extraction
DOCX == <<".", "d", "o", "c", "x">>
DOC  == <<".", "d", "o", "c">>
PDF  == <<".", "p", "d", "f">>

\* extract_text_from_docx / _doc / _pdf: the text the format's library gives
\* for the file; every failure inside them is turned into "".
extract_text_from_docx(path) == IF path \in DOMAIN disk THEN disk[path] ELSE <<>>
extract_text_from_doc(path)  == IF path \in DOMAIN disk THEN disk[path] ELSE <<>>
extract_text_from_pdf(path)  == IF path \in DOMAIN disk THEN disk[path] ELSE <<>>

extract_text(file_path) ==
  LET file_path_lower == LowerStr(file_path) IN
  IF EndsWith(file_path_lower, DOCX) THEN extract_text_from_docx(file_path)
  ELSE IF EndsWith(file_path_lower, DOC) THEN extract_text_from_doc(file_path)
  ELSE IF EndsWith(file_path_lower, PDF) THEN extract_text_from_pdf(file_path)
  ELSE <<>>

\* ------------------------------------------------------------ search_file
\* The pattern of one term under the options (lines 87-97).
CompileTerm(term, fl) ==
  IF fl.regex THEN ReCompile(term, ~fl.case_sensitive)
  ELSE IF fl.whole_word
    THEN ReCompile(<<BS, "b">> \o Escape(term) \o <<BS, "b">>, ~fl.case_sensitive)
    ELSE ReCompile(Escape(term), ~fl.case_sensitive)

\* A plausible slip: the slice stops at the matched line.
ContextNoAfter(lines, i) ==
  LET start == Max(0, i - 1)
      end   == Min(Len(lines), i + 1)
  IN Strip(Join(SubSeq(lines, start + 1, end), <<NL>>))

\* The context of a hit on 0-based line i (lines 102-104, 110).
Context(lines, i) ==
  LET start == Max(0, i - 1)
      end   == Min(Len(lines), i + 2)
  IN Strip(Join(SubSeq(lines, start + 1, end), <<NL>>))

MatchRecord(file_path, i, term, lines) ==
  [file |-> file_path, line_number |-> i + 1, term |-> term,
   context |-> Context(lines, i)]

\* for i, line in enumerate(lines), from index i on (lines 99-111).
RECURSIVE LineLoop(_, _, _, _, _)
LineLoop(file_path, lines, term, pattern, i) ==
  IF i >= Len(lines) THEN <<>>
  ELSE (IF ReSearch(pattern, lines[i + 1])
          THEN <<MatchRecord(file_path, i, term, lines)>> ELSE <<>>)
       \o LineLoop(file_path, lines, term, pattern, i + 1)

\* A plausible slip: a term that does not compile ends the loop over terms.
RECURSIVE TermLoopBreak(_, _, _, _, _)
TermLoopBreak(file_path, lines, terms, k, fl) ==
  IF k > Len(terms) THEN <<>>
  ELSE LET pattern == CompileTerm(terms[k], fl) IN
    IF pattern.error THEN <<>>
    ELSE LineLoop(file_path, lines, terms[k], pattern, 0)
         \o TermLoopBreak(file_path, lines, terms, k + 1, fl)

\* for term in search_terms, from the k-th term on (lines 86-111).
RECURSIVE TermLoop(_, _, _, _, _)
TermLoop(file_path, lines, terms, k, fl) ==
  IF k > Len(terms) THEN <<>>
  ELSE LET pattern == CompileTerm(terms[k], fl) IN
    IF pattern.error THEN TermLoop(file_path, lines, terms, k + 1, fl)
    ELSE LineLoop(file_path, lines, terms[k], pattern, 0)
         \o TermLoop(file_path, lines, terms, k + 1, fl)

search_file(file_path, terms, fl) ==
  LET text == extract_text(file_path) IN
  IF Len(text) = 0 THEN <<>>
  ELSE TermLoop(file_path, SplitLines(text), terms, 1, fl)

\* ------------------------------------------------------------- find_files
NormExt(ext) == IF StartsWith(ext, <<".">>) THEN ext ELSE <<".">> \o ext

\* Path(directory).rglob("*" + ext): the files of the traversal whose name
\* ends with ext, in traversal order.
RECURSIVE RGlob(_, _)
RGlob(listing, ext) ==
  IF Len(listing) = 0 THEN <<>>
  ELSE (IF EndsWith(Head(listing), ext) THEN <<Head(listing)>> ELSE <<>>)
       \o RGlob(Tail(listing), ext)

RECURSIVE find_files(_, _)
find_files(listing, exts) ==
  IF Len(exts) = 0 THEN <<>>
  ELSE RGlob(listing, NormExt(Head(exts))) \o find_files(listing, Tail(exts))

\* ---------------------------------------------------------------- sorting
\* A plausible slip: the key is the line number alone.
KeyLessLineOnly(a, b) == a.line_number < b.line_number

\* (file, line_number) tuple comparison of the sort key (line 195).
KeyLess(a, b) ==
  \/ StrLess(a.file, b.file)
  \/ a.file = b.file /\ a.line_number < b.line_number

\* list.sort is stable: r goes behind every element whose key is not larger.
RECURSIVE InsertSorted(_, _)
InsertSorted(sorted, r) ==
  IF Len(sorted) = 0 THEN <<r>>
  ELSE IF KeyLess(r, Head(sorted)) THEN <<r>> \o sorted
  ELSE <<Head(sorted)>> \o InsertSorted(Tail(sorted), r)

RECURSIVE SortFrom(_, _)
SortFrom(rs, sorted) ==
  IF Len(rs) = 0 THEN sorted ELSE SortFrom(Tail(rs), InsertSorted(sorted, Head(rs)))

\* A plausible slip: the list is displayed as collected.
SortResultsMissing(rs) == rs

\* all_results.sort(key=lambda x: (x['file'], x['line_number']))
SortResults(rs) == SortFrom(rs, <<>>)

\* ----------------------------------------------------------------- inputs
SeqsUpTo(S, lo, hi) == UNION {[1..n -> S] : n \in lo..hi}

Perms(S) == {f \in [1..Cardinality(S) -> S] : \A x \in S : \E i \in DOMAIN f : f[i] = x}

FlagSets == [case_sensitive : BOOLEAN, whole_word : BOOLEAN, regex : BOOLEAN]

\* Terms: a word, its capital, and terms that begin or end with "+", which
\* is a non-word character, a regex operator and a re.escape special.
TermUniverse == {<<"a">>, <<"A">>, <<"a", "+">>, <<"+", "a">>}

\* Lines of extracted text.
LineUniverse ==
  {<<>>, <<" ", "a", " ">>, <<"a", "+">>, <<"a", "a">>}

TextUniverse == {Join(ls, <<NL>>) : ls \in SeqsUpTo(LineUniverse, 0, MaxLines)}

APdf == <<"a", ".", "p", "d", "f">>
BDoc == <<"b", ".", "d", "o", "c">>
ATxt == <<"a", ".", "t", "x", "t">>

\* A direct call: a PDF with any text, or a file of an unsupported format.
SearchInputs ==
  {(APdf :> text) : text \in TextUniverse} \cup {(ATxt :> <<"a", "a">>)}

\* The directory of the runs of main: a PDF file and a .doc file.
Directory ==
  (APdf :> <<"a", "+", " ", "a", NL, "A">>) @@
  (BDoc :> <<" ", "a", "+">>)

ExtUniverse == {<<"p", "d", "f">>, <<".", "d", "o", "c">>, <<"t", "x", "t">>}

MainTerms == {<<"a">>, <<"a", "+">>}

MainFlags == {fl \in FlagSets : ~fl.case_sensitive /\ ~fl.whole_word}

\* --------------------------------------------------- search_file, directly
InitSearch ==
  /\ disk \in SearchInputs
  /\ target \in DOMAIN disk
  /\ search_terms \in SeqsUpTo(TermUniverse, 1, MaxTerms)
  /\ flags \in FlagSets
  /\ found = <<>>
  /\ spc = "call"
  /\ dirlist = <<>> /\ extensions = <<>> /\ jobs = 1
  /\ pc = "idle" /\ files = <<>> /\ fstate = <<>> /\ outcome = <<>>
  /\ yielded = <<>> /\ all_results = <<>> /\ shown = <<>>

SearchFile ==
  /\ spc = "call"
  /\ found' = search_file(target, search_terms, flags)
  /\ spc' = "returned"
  /\ UNCHANGED <<target, inputVars, mainVars>>

NextSearch == SearchFile

SpecSearch == InitSearch /\ [][NextSearch]_vars

\* ------------------------------------------------------------------- main
Futures == 1..Len(files)

Running == {i \in Futures : fstate[i] = "running"}

Exception == [status |-> "raised", results |-> <<>>]

\* A plausible slip: no try/except, the task's exception leaves main.
HandleFutureUncaught(i, acc) ==
  IF outcome[i].status = "ok"
    THEN [all_results |-> acc \o outcome[i].results, raised |-> FALSE]
    ELSE [all_results |-> acc, raised |-> TRUE]

\* A plausible slip: assignment instead of extend.
HandleFutureAssign(i, acc) ==
  IF outcome[i].status = "ok"
    THEN [all_results |-> outcome[i].results, raised |-> FALSE]
    ELSE [all_results |-> acc, raised |-> FALSE]

\* The body of the collection loop for the yielded future i (lines 187-192):
\* future.result() returns and all_results is extended, or it raises and the
\* except clause reports the file; nothing is raised out of the body.
HandleFuture(i, acc) ==
  IF outcome[i].status = "ok"
    THEN [all_results |-> acc \o outcome[i].results, raised |-> FALSE]
    ELSE [all_results |-> acc, raised |-> FALSE]

\* A plausible slip: the loop waits for the first completed future only.
LoopDoneFirst(y) == Len(y) >= 1

\* as_completed is exhausted: it has yielded every future (line 186).
LoopDone(y) == \A i \in Futures : \E k \in DOMAIN y : y[k] = i

InitMain ==
  /\ disk = Directory
  /\ dirlist \in Perms(DOMAIN Directory)
  /\ extensions \in SeqsUpTo(ExtUniverse, 1, MaxExts)
  /\ search_terms \in SeqsUpTo(MainTerms, 1, MaxTerms)
  /\ flags \in MainFlags
  /\ jobs \in 1..MaxJobs
  /\ pc = "find"
  /\ files = <<>> /\ fstate = <<>> /\ outcome = <<>>
  /\ yielded = <<>> /\ all_results = <<>> /\ shown = <<>>
  /\ target = <<>> /\ found = <<>> /\ spc = "idle"

\* files = find_files(...); return when there is none (lines 171-175).
FindFiles ==
  /\ pc = "find"
  /\ files' = find_files(dirlist, extensions)
  /\ fstate' = [i \in 1..Len(files') |-> "new"]
  /\ outcome' = [i \in 1..Len(files') |-> NoOutcome]
  /\ pc' = IF Len(files') = 0 THEN "done" ELSE "submit"
  /\ UNCHANGED <<yielded, all_results, shown, inputVars, searchVars>>

\* executor.submit for the next file of the list (lines 182-185).
Submit(i) ==
  /\ pc = "submit"
  /\ fstate[i] = "new"
  /\ \A j \in 1..(i - 1) : fstate[j] # "new"
  /\ fstate' = [fstate EXCEPT ![i] = "pending"]
  /\ pc' = IF i = Len(files) THEN "collect" ELSE "submit"
  /\ UNCHANGED <<files, outcome, yielded, all_results, shown, inputVars, searchVars>>

\* A worker process takes the oldest queued task; at most jobs run at once.
Start(i) ==
  /\ fstate[i] = "pending"
  /\ \A j \in 1..(i - 1) : fstate[j] # "pending"
  /\ Cardinality(Running) < jobs
  /\ fstate' = [fstate EXCEPT ![i] = "running"]
  /\ UNCHANGED <<pc, files, outcome, yielded, all_results, shown, inputVars, searchVars>>

\* The task returns search_file's list.
FinishOk(i) ==
  /\ fstate[i] = "running"
  /\ fstate' = [fstate EXCEPT ![i] = "finished"]
  /\ outcome' = [outcome EXCEPT
       ![i] = [status |-> "ok", results |-> search_file(files[i], search_terms, flags)]]
  /\ UNCHANGED <<pc, files, yielded, all_results, shown, inputVars, searchVars>>

\* The task ends with an exception, which its future holds.
FinishRaise(i) ==
  /\ fstate[i] = "running"
  /\ fstate' = [fstate EXCEPT ![i] = "finished"]
  /\ outcome' = [outcome EXCEPT ![i] = Exception]
  /\ UNCHANGED <<pc, files, yielded, all_results, shown, inputVars, searchVars>>

\* as_completed yields a finished future it has not yielded yet and the loop
\* body runs on it (lines 186-192).
Collect(i) ==
  /\ pc = "collect"
  /\ ~LoopDone(yielded)
  /\ fstate[i] = "finished"
  /\ \A k \in DOMAIN yielded : yielded[k] # i
  /\ yielded' = Append(yielded, i)
  /\ LET r == HandleFuture(i, all_results) IN
       /\ all_results' = r.all_results
       /\ pc' = IF r.raised THEN "aborted" ELSE "collect"
  /\ UNCHANGED <<files, fstate, outcome, shown, inputVars, searchVars>>

\* The loop ends and the with block is left: shutdown(wait=True) returns when
\* no task is pending or running (lines 181, 193).
Shutdown ==
  /\ pc = "collect"
  /\ LoopDone(yielded)
  /\ \A i \in Futures : fstate[i] = "finished"
  /\ pc' = "sort"
  /\ UNCHANGED <<files, fstate, outcome, yielded, all_results, shown, inputVars, searchVars>>

\* all_results.sort(...) (line 195).
Sort ==
  /\ pc = "sort"
  /\ all_results' = SortResults(all_results)
  /\ pc' = "display"
  /\ UNCHANGED <<files, fstate, outcome, yielded, shown, inputVars, searchVars>>

\* display_results(all_results, args.output) (line 198).
Display ==
  /\ pc = "display"
  /\ shown' = all_results
  /\ pc' = "done"
  /\ UNCHANGED <<files, fstate, outcome, yielded, all_results, inputVars, searchVars>>

Next ==
  \/ FindFiles
  \/ \E i \in Futures : Submit(i)
  \/ \E i \in Futures : Start(i)
  \/ \E i \in Futures : FinishOk(i)
  \/ \E i \in Futures : FinishRaise(i)
  \/ \E i \in Futures : Collect(i)
  \/ Shutdown
  \/ Sort
  \/ Display

Spec == InitMain /\ [][Next]_vars

\* ------------------------------------------------------------- properties
Range(s) == {s[k] : k \in DOMAIN s}

CountIn(s, x) == Cardinality({k \in DOMAIN s : s[k] = x})

IsPermutation(s, t) ==
  /\ Len(s) = Len(t)
  /\ \A x \in Range(s) \cup Range(t) : CountIn(s, x) = CountIn(t, x)

Failed(i) == outcome[i].status = "raised"
Succeeded(i) == outcome[i].status = "ok"

\* The result lists of the futures 1..n that did not raise, in submission order.
RECURSIVE OkConcat(_)
OkConcat(n) ==
  IF n = 0 THEN <<>>
  ELSE OkConcat(n - 1) \o (IF Succeeded(n) THEN outcome[n].results ELSE <<>>)

\* display_results has been called (main did not return for want of files).
Finished == pc = "done" /\ Len(files) > 0

\* C1: the displayed list is a function of the file list, the terms, the
\* options and the tasks' outcomes alone: it is the sort of the successful
\* tasks' results taken in submission order, whatever the number of workers
\* and the order of completion were.
C1_OutputIndependentOfSchedule ==
  Finished => shown = SortResults(OkConcat(Len(files)))

C1_Witness ==
  /\ Finished /\ jobs = 2 /\ Len(files) = 2 /\ yielded = <<2, 1>>
  /\ files[1] # files[2]
  /\ Succeeded(1) /\ Succeeded(2)
  /\ Len(outcome[1].results) > 0 /\ Len(outcome[2].results) > 0

\* C2: in the displayed list a record of a smaller file precedes a record of
\* a larger file, and within a file a smaller line number comes first.
C2_OutputOrdered ==
  Finished =>
    \A p, q \in DOMAIN shown :
      /\ StrLess(shown[p].file, shown[q].file) => p < q
      /\ (shown[p].file = shown[q].file
           /\ shown[p].line_number < shown[q].line_number) => p < q

C2_Witness ==
  /\ Finished /\ Len(yielded) = 2
  /\ StrLess(files[yielded[2]], files[yielded[1]])
  /\ Succeeded(1) /\ Succeeded(2)
  /\ Len(outcome[1].results) > 1 /\ Len(outcome[2].results) > 0

\* Position of a term on the command line (its first occurrence).
TermIndex(term) ==
  CHOOSE k \in DOMAIN search_terms :
    /\ search_terms[k] = term
    /\ \A j \in 1..(k - 1) : search_terms[j] # term

\* C3: displayed records of one file and one line with different terms stand
\* in the order of their terms on the command line.
C3_TiesInTermOrder ==
  Finished =>
    \A p, q \in DOMAIN shown :
      (/\ p < q
       /\ shown[p].file = shown[q].file
       /\ shown[p].line_number = shown[q].line_number
       /\ shown[p].term # shown[q].term)
      => TermIndex(shown[p].term) < TermIndex(shown[q].term)

\* C4: no (file, term, line_number) triple occurs twice in the displayed list.
C4_TriplesUnique ==
  Finished =>
    \A p, q \in DOMAIN shown :
      (/\ shown[p].file = shown[q].file
       /\ shown[p].term = shown[q].term
       /\ shown[p].line_number = shown[q].line_number) => p = q

\* C5: an exception of a task never leaves the collection loop; the run
\* reaches display with every future visited, no record from the tasks that
\* raised and every record of every task that returned.
C5_TaskErrorIsolated ==
  /\ pc # "aborted"
  /\ (Finished /\ \E i \in Futures : Failed(i)) =>
       /\ \A i \in Futures : i \in Range(yielded)
       /\ \A j \in Futures : Succeeded(j) =>
            \A r \in Range(outcome[j].results) :
              CountIn(shown, r) >= CountIn(outcome[j].results, r)
       /\ \A r \in Range(shown) : \E j \in Futures :
            Succeeded(j) /\ r \in Range(outcome[j].results)

C5_Witness ==
  /\ Finished /\ Len(yielded) = 2
  /\ Failed(yielded[1]) /\ Succeeded(yielded[2])
  /\ Len(shown) > 0

\* C6: once main is past the with block, every submitted task has finished
\* and the loop has visited each future exactly once.
C6_Drained ==
  (pc \in {"sort", "display", "done"} /\ Len(files) > 0) =>
    \A i \in Futures :
      /\ fstate[i] = "finished"
      /\ outcome[i].status \in {"ok", "raised"}
      /\ CountIn(yielded, i) = 1

C6_Witness ==
  /\ Finished /\ Len(files) = 2 /\ jobs = 1
  /\ Failed(1) /\ Succeeded(2)

\* C10: when the collection loop has ended, all_results is a permutation of
\* the concatenated results of the tasks that did not raise.
C10_CollectedIsPermutation ==
  pc = "sort" => IsPermutation(all_results, OkConcat(Len(files)))

C10_Witness ==
  /\ pc = "sort" /\ yielded = <<2, 1>>
  /\ Succeeded(1) /\ Succeeded(2)
  /\ Len(outcome[1].results) > 0 /\ Len(outcome[2].results) > 0

\* The direct call has returned a scan of a file with text.
Scanned == spc = "returned" /\ Len(extract_text(target)) > 0

ScannedLines == SplitLines(disk[target])

HasRecord(term, i) ==
  \E r \in Range(found) : r.term = term /\ r.line_number = i + 1

\* C7: in regex mode a term that does not compile leaves no record, and every
\* term that compiles has a record for every line its pattern matches,
\* wherever it stands in the list.
C7_InvalidRegexSkipped ==
  (Scanned /\ flags.regex) =>
    \A k \in DOMAIN search_terms :
      LET term    == search_terms[k]
          pattern == ReCompile(term, ~flags.case_sensitive)
      IN IF pattern.error
           THEN \A r \in Range(found) : r.term # term
           ELSE \A i \in 0..(Len(ScannedLines) - 1) :
                  ReSearch(pattern, ScannedLines[i + 1]) => HasRecord(term, i)

C7_Witness ==
  /\ Scanned /\ flags.regex /\ Len(search_terms) = 2
  /\ ReCompile(search_terms[1], TRUE).error
  /\ ~ReCompile(search_terms[2], TRUE).error
  /\ \E r \in Range(found) : r.term = search_terms[2]

\* The line before, the matched line and the line after a hit on 0-based
\* line i, as far as they exist.
Neighbourhood(lines, i) ==
  (IF i >= 1 THEN <<lines[i]>> ELSE <<>>)
  \o <<lines[i + 1]>>
  \o (IF i + 2 <= Len(lines) THEN <<lines[i + 2]>> ELSE <<>>)

StripEach(ls) == [k \in DOMAIN ls |-> Strip(ls[k])]

\* C8 as stated: the context is the neighbourhood with every line stripped on
\* its own, joined with newlines and trimmed.
C8_ContextLinesStripped ==
  Scanned =>
    \A r \in Range(found) :
      /\ r.line_number \in 1..Len(ScannedLines)
      /\ r.context =
           Strip(Join(StripEach(Neighbourhood(ScannedLines, r.line_number - 1)), <<NL>>))

\* C8 as amended: the record of a hit on 0-based line i has line_number i+1
\* and its context is the neighbourhood joined with newlines, of which only
\* the whole is trimmed: whitespace next to an inner newline stays.
C8_ContextJoinedThenTrimmed ==
  Scanned =>
    /\ \A r \in Range(found) :
         /\ r.line_number \in 1..Len(ScannedLines)
         /\ r.context =
              Strip(Join(Neighbourhood(ScannedLines, r.line_number - 1), <<NL>>))
    /\ \A k \in DOMAIN search_terms : \A i \in 0..(Len(ScannedLines) - 1) :
         LET pattern == CompileTerm(search_terms[k], flags) IN
         (~pattern.error /\ ReSearch(pattern, ScannedLines[i + 1]))
           => HasRecord(search_terms[k], i)

C8_Witness ==
  /\ Scanned /\ Len(ScannedLines) = 3
  /\ \E r \in Range(found) :
       /\ r.line_number = 2
       /\ r.context = <<"a", " ", NL, "a", "+", NL, " ", "a">>

\* The literal term stands at 0-based offset pos of the line.
OccursAt(term, line, pos) ==
  /\ pos + Len(term) <= Len(line)
  /\ \A j \in 1..Len(term) :
       IF flags.case_sensitive THEN line[pos + j] = term[j]
       ELSE Lower(line[pos + j]) = Lower(term[j])

\* The occurrence at pos has a non-word character or the line's start or end
\* on either side.
BoundedAt(term, line, pos) ==
  /\ pos = 0 \/ ~IsWord(line[pos])
  /\ pos + Len(term) = Len(line) \/ ~IsWord(line[pos + Len(term) + 1])

\* C9: without regex, a line is reported for a term exactly when it has an
\* occurrence of the term, which in whole-word mode must be bounded.
C9_WholeWordBounded ==
  (Scanned /\ ~flags.regex) =>
    \A k \in DOMAIN search_terms : \A i \in 0..(Len(ScannedLines) - 1) :
      LET term == search_terms[k]
          line == ScannedLines[i + 1]
      IN HasRecord(term, i) <=>
           \E pos \in 0..Len(line) :
             /\ OccursAt(term, line, pos)
             /\ flags.whole_word => BoundedAt(term, line, pos)

====
